---------------------------- MODULE Spec2Model ----------------------------
(***************************************************************************)
(* A model of phonetree: the Menu / Action tree, the fuzzy selection of    *)
(* Menu._get_item, callback normalization and the traversal loop of        *)
(* Menu.communicate.                                                       *)
(*                                                                         *)
(* Text is a sequence of code points.  A node is named by its index in     *)
(* `nodes` (node identity); None is modelled by 0.                         *)
(***************************************************************************)
EXTENDS Integers, Sequences, FiniteSets, TLC

VARIABLES
    nodes,      \* every Menu / Action object created so far, root first
    phase,      \* "build" | "run" | "returned" | "raised"
    current,    \* communicate's `current` (0 is None)
    pc,         \* "next": about to call current.next; "ask": inside Menu.next, waiting in ask(question)
    state,      \* communicate's `state`
    question,   \* the prompt handed to the pending / latest ask call
    calls,      \* engine-made calls within the latest transition: callbacks invoked, asks made
    last        \* the latest operation: its name, node, arguments and outcome

vars == <<nodes, phase, current, pc, state, question, calls, last>>

-----------------------------------------------------------------------------
(* Bounds of the exploration *)

MaxNodes == 3
MaxAsks == 2
MaxCallbacks == 1

None == 0

-----------------------------------------------------------------------------
(* Text *)

\* "Return to previous menu"
ReturnLabel ==
    <<82, 101, 116, 117, 114, 110, 32, 116, 111, 32, 112, 114, 101, 118,
      105, 111, 117, 115, 32, 109, 101, 110, 117>>

\* "Exit"
ExitLabel == <<69, 120, 105, 116>>

\* str.lower on one ASCII code point
LowerChar(c) == IF c >= 65 /\ c <= 90 THEN c + 32 ELSE c

\* str.lower
Lower(s) == [i \in 1..Len(s) |-> LowerChar(s[i])]

\* str(i) for i >= 0: the decimal digits, as code points
RECURSIVE Str(_)
Str(i) == IF i < 10 THEN <<48 + i>> ELSE Append(Str(i \div 10), 48 + (i % 10))

\* s > t on str: lexicographic by code point, a proper prefix is smaller
RECURSIVE StrGreater(_, _)
StrGreater(s, t) ==
    IF s = <<>> THEN FALSE
    ELSE IF t = <<>> THEN TRUE
    ELSE IF Head(s) # Head(t) THEN Head(s) > Head(t)
    ELSE StrGreater(Tail(s), Tail(t))

-----------------------------------------------------------------------------
(* similarity: rapidfuzz's Indel.normalized_similarity *)

IntMax(a, b) == IF a >= b THEN a ELSE b

\* One row of the longest-common-subsequence table: acc holds the cells for
\* b's prefixes of length 0..j-1, prev is the row of the previous character.
RECURSIVE LcsRow(_, _, _, _, _)
LcsRow(prev, c, b, j, acc) ==
    IF j > Len(b) THEN acc
    ELSE LcsRow(prev, c, b, j + 1,
                Append(acc, IF b[j] = c THEN prev[j] + 1
                            ELSE IntMax(prev[j + 1], acc[j])))

RECURSIVE LcsFrom(_, _, _, _)
LcsFrom(a, b, i, prev) ==
    IF i > Len(a) \/ prev[Len(b) + 1] = Len(b) THEN prev[Len(b) + 1]
    ELSE LcsFrom(a, b, i + 1, LcsRow(prev, a[i], b, 1, <<0>>))

\* length of the longest common subsequence (a symmetric quantity: the table
\* is laid out with the shorter text down its rows)
Lcs(a, b) ==
    IF Len(a) <= Len(b) THEN LcsFrom(a, b, 1, [j \in 1..(Len(b) + 1) |-> 0])
    ELSE LcsFrom(b, a, 1, [j \in 1..(Len(a) + 1) |-> 0])

\* The similarity as the exact fraction <<numerator, denominator>>:
\* 1 - (len1 + len2 - 2*lcs) / (len1 + len2), and 1 for two empty strings.
similarity(s1, s2) ==
    IF Len(s1) + Len(s2) = 0 THEN <<1, 1>>
    ELSE <<2 * Lcs(s1, s2), Len(s1) + Len(s2)>>

RatioGreater(r, q) == r[1] * q[2] > q[1] * r[2]

\* ratio >= 0.5
AtLeastHalf(r) == 2 * r[1] >= r[2]

-----------------------------------------------------------------------------
(* The inputs explored *)

\* Labels given to Menu.menu / Menu.action: "ab", "ba", "2"
Labels == {<<97, 98>>, <<98, 97>>, <<50>>}

\* Lines ask may return: "a", "AB", "12", "1", "2", "3", "zz", "exit"
Inputs ==
    {<<97>>, <<65, 66>>, <<49, 50>>, <<49>>, <<50>>, <<51>>, <<122, 122>>,
     <<101, 120, 105, 116>>}

\* An optional bool argument of Menu.menu
FlagArgs == {"None", "True", "False"}

\* Values of the state threaded through the traversal: the one handed to
\* communicate and another one
InitialState == "initial"
StateVals == {InitialState, "changed"}

\* Lines ask may return where callbacks are explored: "AB", "2", "zz"
InputsCb == {<<65, 66>>, <<50>>, <<122, 122>>}

\* Declared parameter lists of the callbacks attached where the tree varies:
\* one the traversal can call, one it calls with the arguments in the declared
\* order only from a Menu, one stored and never callable, one rejected
ShapesCb ==
    {<<"state">>, <<"state", "ask", "tell">>, <<"ask", "state">>,
     <<"state", "other">>}

\* Declared parameter lists of the callbacks attached where the shape varies
Shapes ==
    {<<>>, <<"state">>, <<"ask">>, <<"tell">>, <<"flow">>,
     <<"state", "ask">>, <<"state", "tell">>, <<"ask", "tell">>,
     <<"tell", "ask">>, <<"ask", "state">>, <<"state", "other">>,
     <<"state", "ask", "tell">>, <<"state", "tell", "ask">>,
     <<"ask", "tell", "state">>, <<"state", "other", "another">>,
     <<"state", "ask", "tell", "flow">>}

\* "ab"
LabelsCb == {<<97, 98>>}

-----------------------------------------------------------------------------
(* similarity, tabulated once for the texts the exploration compares *)

Tabulated ==
    ({Lower(l) : l \in Labels \cup {ReturnLabel, ExitLabel}}
        \X {Lower(n) : n \in Inputs})
    \cup ({Str(i) : i \in 1..(MaxNodes + 2)} \X Inputs)

\* (comparing the function with itself makes TLC enumerate it, once)
SimilarityTable ==
    LET t == [p \in Tabulated |-> similarity(p[1], p[2])]
    IN  IF t = t THEN t ELSE <<>>

\* similarity(s1, s2), read from the table where it holds the pair
ratio(s1, s2) ==
    IF <<s1, s2>> \in Tabulated THEN SimilarityTable[<<s1, s2>>]
    ELSE similarity(s1, s2)

-----------------------------------------------------------------------------
(* The node model: Menu and Action *)

NoCallback == [wrapper |-> "None", params |-> <<>>]

\* Menu.__init__
Menu(parent, include_exit, include_exit_on_submenus) ==
    [kind |-> "Menu", parent |-> parent, include_exit |-> include_exit,
     include_exit_on_submenus |-> include_exit_on_submenus,
     items |-> <<>>, callback |-> NoCallback]

\* Action.__init__ (an Action has no flags and no items: the fields are unused)
Action(parent) ==
    [kind |-> "Action", parent |-> parent, include_exit |-> FALSE,
     include_exit_on_submenus |-> FALSE,
     items |-> <<>>, callback |-> NoCallback]

\* Faulty variant: no way back, a submenu gets no Return entry
items_list_NoReturn(self) ==
    self.items
    \o (IF self.parent = None \/ self.include_exit
            THEN <<<<ExitLabel, None>>>> ELSE <<>>)

\* Faulty variant: Exit only where include_exit is set, the root included
items_list_ExitOnlyIfFlag(self) ==
    self.items
    \o (IF self.parent # None THEN <<<<ReturnLabel, self.parent>>>> ELSE <<>>)
    \o (IF self.include_exit THEN <<<<ExitLabel, None>>>> ELSE <<>>)

\* Menu._items_list of the Menu record self: a sequence of <<label, target>>
items_list(self) ==
    self.items
    \o (IF self.parent # None THEN <<<<ReturnLabel, self.parent>>>> ELSE <<>>)
    \o (IF self.parent = None \/ self.include_exit
            THEN <<<<ExitLabel, None>>>> ELSE <<>>)

\* Menu._menu: the line "{i + 1}. {label}" of every option
menu_lines(self) ==
    LET items == items_list(self)
    IN  [i \in 1..Len(items) |-> Str(i) \o <<46, 32>> \o items[i][1]]

-----------------------------------------------------------------------------
(* Selection: Menu._get_item *)

\* (ratio, (label, target)) > (ratio', (label', target')) on Python tuples:
\* "gt", "le", or "TypeError" when two distinct targets get compared.
LabelTupleGreater(r, x, q, y) ==
    IF RatioGreater(r, q) THEN "gt"
    ELSE IF RatioGreater(q, r) THEN "le"
    ELSE IF x[1] # y[1]
        THEN (IF StrGreater(x[1], y[1]) THEN "gt" ELSE "le")
    ELSE IF x[2] = y[2] THEN "le"
    ELSE "TypeError"

\* max(...) over the label tuples: k is the position scanned next, best the
\* position of the running maximum; 0 stands for the TypeError raised.
RECURSIVE LabelMax(_, _, _, _)
LabelMax(items, ratios, k, best) ==
    IF k > Len(items) THEN best
    ELSE LET c == LabelTupleGreater(ratios[k], items[k], ratios[best], items[best])
         IN  IF c = "TypeError" THEN 0
             ELSE LabelMax(items, ratios, k + 1, IF c = "gt" THEN k ELSE best)

\* (ratio, i) > (ratio', i') on Python tuples
IndexTupleGreater(r, i, q, j) ==
    IF RatioGreater(r, q) THEN TRUE
    ELSE IF RatioGreater(q, r) THEN FALSE
    ELSE i > j

\* max(...) over the index tuples
RECURSIVE IndexMax(_, _, _)
IndexMax(ratios, k, best) ==
    IF k > Len(ratios) THEN best
    ELSE IndexMax(ratios, k + 1,
                  IF IndexTupleGreater(ratios[k], k, ratios[best], best)
                      THEN k ELSE best)

Found(target) == [tag |-> "return", target |-> target]
KeyError == [tag |-> "KeyError", target |-> None]
TypeError == [tag |-> "TypeError", target |-> None]

\* Menu._get_item on the effective options `items` and the input `name`
get_item(items, name) ==
    LET lratios == [i \in 1..Len(items) |->
                        ratio(Lower(items[i][1]), Lower(name))]
        lbest == LabelMax(items, lratios, 2, 1)
        iratios == [i \in 1..Len(items) |-> ratio(Str(i), name)]
        ibest == IndexMax(iratios, 2, 1)
    IN  IF lbest = 0 THEN TypeError
        ELSE IF AtLeastHalf(lratios[lbest]) THEN Found(items[lbest][2])
        ELSE IF AtLeastHalf(iratios[ibest]) THEN Found(items[ibest][2])
        ELSE KeyError

-----------------------------------------------------------------------------
(* Callbacks: normalize_callback and the binding of a call's arguments *)

\* What the run hands to a callback: the state, the ask and the tell capability
StateArg == "state value"
AskArg == "ask capability"
TellArg == "tell capability"

KwValue(name) == IF name = "ask" THEN AskArg ELSE TellArg

Position(params, name) == CHOOSE i \in 1..Len(params) : params[i] = name

Names(params) == {params[i] : i \in 1..Len(params)}

\* Python's binding of the call f(*pos, **kw) to f's declared parameters
\* (no defaults): the value each parameter receives, or a TypeError for too
\* many positionals, an unknown keyword, a parameter given twice or one
\* left without a value.  kw is the set of keyword names used.
Bind(params, pos, kw) ==
    IF \/ Len(pos) > Len(params)
       \/ \E k \in kw : k \notin Names(params)
       \/ \E k \in kw : Position(params, k) <= Len(pos)
       \/ \E i \in (Len(pos) + 1)..Len(params) : params[i] \notin kw
        THEN [ok |-> FALSE, args |-> <<>>]
    ELSE [ok |-> TRUE,
          args |-> [i \in 1..Len(params) |->
                        IF i <= Len(pos) THEN pos[i] ELSE KwValue(params[i])]]

ValueError == [wrapper |-> "ValueError", params |-> <<>>]

\* normalize_callback on a callback declaring `params`: the wrapper returned
\* (named by the call it makes), or the ValueError raised
normalize_callback(params) ==
    LET P == Names(params)
    IN  IF Len(params) = 3 THEN [wrapper |-> "callback", params |-> params]
        ELSE IF Len(params) = 2 THEN
            IF "ask" \in P /\ "tell" \notin P
                THEN [wrapper |-> "callback(state, ask=ask)", params |-> params]
            ELSE IF "ask" \notin P /\ "tell" \in P
                THEN [wrapper |-> "callback(state, tell=tell)", params |-> params]
            ELSE IF "ask" \in P /\ "tell" \in P
                THEN [wrapper |-> "callback(ask=ask, tell=tell)", params |-> params]
            ELSE ValueError
        ELSE IF Len(params) = 1 THEN
            IF "ask" \in P
                THEN [wrapper |-> "callback(ask=ask)", params |-> params]
            ELSE IF "tell" \in P
                THEN [wrapper |-> "callback(tell=tell)", params |-> params]
            ELSE [wrapper |-> "callback(state)", params |-> params]
        ELSE IF Len(params) = 0
            THEN [wrapper |-> "callback()", params |-> params]
        ELSE ValueError

\* Faulty variant: every wrapper hands the state over as well
WrapperCall_StateAlways(cb) ==
    CASE cb.wrapper \in {"callback(state, ask=ask)", "callback(ask=ask)"}
            -> Bind(cb.params, <<StateArg>>, {"ask"})
      [] cb.wrapper \in {"callback(state, tell=tell)", "callback(tell=tell)"}
            -> Bind(cb.params, <<StateArg>>, {"tell"})
      [] cb.wrapper = "callback(ask=ask, tell=tell)"
            -> Bind(cb.params, <<StateArg>>, {"ask", "tell"})
      [] OTHER -> Bind(cb.params, <<StateArg>>, {})

\* The call a lambda wrapper makes on the original callback
WrapperCall(cb) ==
    CASE cb.wrapper = "callback(state, ask=ask)" -> Bind(cb.params, <<StateArg>>, {"ask"})
      [] cb.wrapper = "callback(state, tell=tell)" -> Bind(cb.params, <<StateArg>>, {"tell"})
      [] cb.wrapper = "callback(ask=ask, tell=tell)" -> Bind(cb.params, <<>>, {"ask", "tell"})
      [] cb.wrapper = "callback(ask=ask)" -> Bind(cb.params, <<>>, {"ask"})
      [] cb.wrapper = "callback(tell=tell)" -> Bind(cb.params, <<>>, {"tell"})
      [] cb.wrapper = "callback(state)" -> Bind(cb.params, <<StateArg>>, {})
      [] cb.wrapper = "callback()" -> Bind(cb.params, <<>>, {})

\* Menu.next's call: callback(state, ask, tell)
MenuCall(cb) ==
    IF cb.wrapper = "callback" THEN Bind(cb.params, <<StateArg, AskArg, TellArg>>, {})
    ELSE WrapperCall(cb)

\* Action.next's call: callback(state, ask=ask, tell=tell)
ActionCall(cb) ==
    IF cb.wrapper = "callback" THEN Bind(cb.params, <<StateArg>>, {"ask", "tell"})
    ELSE WrapperCall(cb)

-----------------------------------------------------------------------------
(* State *)

NoQuestion == [head |-> "", lines |-> <<>>]
NoCalls == [callback |-> 0, ask |-> 0]
NoBind == [ok |-> TRUE, args |-> <<>>]
NoResult == [tag |-> "", target |-> None]
NoWish == <<>>

\* the record of an operation; the fields an operation does not use keep
\* these values
NoLast ==
    [op |-> "menu()", node |-> 1, text |-> <<>>, eof |-> FALSE,
     include_exit |-> "None", include_exit_on_submenus |-> "None",
     params |-> <<>>, res |-> NoResult, bind |-> NoBind, called |-> FALSE,
     wish |-> NoWish, exc |-> "", before |-> InitialState,
     ret |-> InitialState]

Menus(ns) == {n \in 1..Len(ns) : ns[n].kind = "Menu"}

WithCallback(ns) == {n \in 1..Len(ns) : ns[n].callback # NoCallback}

\* menu(): the root Menu
Init ==
    /\ nodes = <<Menu(None, FALSE, FALSE)>>
    /\ phase = "build"
    /\ current = None
    /\ pc = "next"
    /\ state = InitialState
    /\ question = NoQuestion
    /\ calls = NoCalls
    /\ last = NoLast

-----------------------------------------------------------------------------
(* The builder *)

\* an optional bool argument, defaulted
Default(arg, dflt) == IF arg = "None" THEN dflt ELSE arg = "True"

\* Faulty variant: a submenu's include_exit defaults to the creator's include_exit
menu_InheritExit(ns, self, name, include_exit, include_exit_on_submenus) ==
    LET submenu == Menu(self,
                        Default(include_exit, ns[self].include_exit),
                        Default(include_exit_on_submenus,
                                ns[self].include_exit_on_submenus))
    IN  Append([ns EXCEPT ![self].items = Append(@, <<name, Len(ns) + 1>>)],
               submenu)

\* Menu.menu: the nodes after self.menu(name, include_exit, include_exit_on_submenus)
menu(ns, self, name, include_exit, include_exit_on_submenus) ==
    LET submenu == Menu(self,
                        Default(include_exit, ns[self].include_exit_on_submenus),
                        Default(include_exit_on_submenus,
                                ns[self].include_exit_on_submenus))
    IN  Append([ns EXCEPT ![self].items = Append(@, <<name, Len(ns) + 1>>)],
               submenu)

\* Faulty variant: the new entry put in front of the others
action_Prepend(ns, self, name) ==
    Append([ns EXCEPT ![self].items = <<<<name, Len(ns) + 1>>>> \o @],
           Action(self))

\* Menu.action: the nodes after self.action(name)
action(ns, self, name) ==
    Append([ns EXCEPT ![self].items = Append(@, <<name, Len(ns) + 1>>)],
           Action(self))

\* Menu.__call__ / Action.__call__ with a callback declaring params: the
\* callback stored on the node (unchanged when normalize_callback raises)
set_callback(old, params) ==
    IF normalize_callback(params) = ValueError THEN old
    ELSE normalize_callback(params)

AddMenu(self, name, ie, ies) ==
    /\ phase = "build"
    /\ Len(nodes) < MaxNodes
    /\ self \in Menus(nodes)
    /\ nodes' = menu(nodes, self, name, ie, ies)
    /\ last' = [NoLast EXCEPT !.op = "Menu.menu", !.node = self, !.text = name,
                              !.include_exit = ie,
                              !.include_exit_on_submenus = ies]
    /\ UNCHANGED <<phase, current, pc, state, question, calls>>

AddAction(self, name) ==
    /\ phase = "build"
    /\ Len(nodes) < MaxNodes
    /\ self \in Menus(nodes)
    /\ nodes' = action(nodes, self, name)
    /\ last' = [NoLast EXCEPT !.op = "Menu.action", !.node = self, !.text = name]
    /\ UNCHANGED <<phase, current, pc, state, question, calls>>

\* node(callback) with a function declaring params
Attach(self, params) ==
    /\ phase = "build"
    /\ self \in 1..Len(nodes)
    /\ \/ nodes[self].callback # NoCallback
       \/ Cardinality(WithCallback(nodes)) < MaxCallbacks
    /\ nodes' = [nodes EXCEPT ![self].callback = set_callback(@, params)]
    /\ last' = [NoLast EXCEPT !.op = "__call__", !.node = self, !.params = params,
                              !.exc = IF normalize_callback(params) = ValueError
                                          THEN "ValueError" ELSE ""]
    /\ UNCHANGED <<phase, current, pc, state, question, calls>>

\* node(None)
Detach(self) ==
    /\ phase = "build"
    /\ self \in 1..Len(nodes)
    /\ nodes[self].callback # NoCallback
    /\ nodes' = [nodes EXCEPT ![self].callback = NoCallback]
    /\ last' = [NoLast EXCEPT !.op = "__call__(None)", !.node = self]
    /\ UNCHANGED <<phase, current, pc, state, question, calls>>

-----------------------------------------------------------------------------
(* The traversal: Menu.communicate, Menu.next, Action.next *)

Prompt(self) == [head |-> "Please select an option:", lines |-> menu_lines(self)]
Invalid == [head |-> "Invalid option, please try again.", lines |-> <<>>]

\* What a callback may try to redirect the traversal to: nothing (<<>>), or
\* <<n>> for the terminal (None) or a node
Wishes == {NoWish} \cup {<<n>> : n \in 0..Len(nodes)}

\* self.communicate(InitialState, ask, tell) on a Menu of the tree built
Communicate(self) ==
    /\ phase = "build"
    /\ self \in Menus(nodes)
    /\ phase' = "run"
    /\ current' = self
    /\ pc' = "next"
    /\ state' = InitialState
    /\ last' = [NoLast EXCEPT !.op = "communicate", !.node = self]
    /\ UNCHANGED <<nodes, question, calls>>

\* Faulty variant: an Action that hands over to itself
ActionNextNode_Self(self, wish) == self

\* Faulty variant: "Return to previous menu" ends the traversal
MenuNextNode_ReturnEnds(self, res) ==
    IF res.target = nodes[self].parent THEN None ELSE res.target

\* The node Menu.next returns after a selection, and Action.next after its callback
MenuNextNode(self, res) == res.target
ActionNextNode(self, wish) == nodes[self].parent

\* Faulty variant: the callback's return value dropped
NextState_Incoming(cb, s, r) == s

\* state = callback(...): the state a transition returns, given the incoming
\* state s and the value r its callback returns
NextState(cb, s, r) == IF cb = NoCallback THEN s ELSE r

\* The part of communicate's loop after current.next returned (node, s)
Continue(node, s) ==
    /\ current' = node
    /\ state' = s
    /\ pc' = "next"
    /\ phase' = IF node = None THEN "returned" ELSE "run"

\* An exception leaves next and communicate
Raise ==
    /\ phase' = "raised"
    /\ UNCHANGED <<current, pc, state>>

\* Menu.next up to its first ask(question): the callback, the prompt
MenuNext ==
    /\ phase = "run" /\ pc = "next"
    /\ nodes[current].kind = "Menu"
    /\ LET cb == nodes[current].callback
           l == [NoLast EXCEPT !.op = "Menu.next", !.node = current,
                               !.before = state]
       IN  IF cb = NoCallback
               THEN /\ state' = state
                    /\ pc' = "ask"
                    /\ question' = Prompt(nodes[current])
                    /\ calls' = [callback |-> 0, ask |-> 1]
                    /\ last' = l
                    /\ UNCHANGED <<phase, current>>
           ELSE IF ~MenuCall(cb).ok
               THEN /\ Raise
                    /\ calls' = [callback |-> 1, ask |-> 0]
                    /\ last' = [l EXCEPT !.bind = MenuCall(cb), !.exc = "TypeError"]
                    /\ UNCHANGED question
           ELSE \E r \in StateVals, w \in Wishes :
                    /\ state' = NextState(cb, state, r)
                    /\ pc' = "ask"
                    /\ question' = Prompt(nodes[current])
                    /\ calls' = [callback |-> 1, ask |-> 1]
                    /\ last' = [l EXCEPT !.bind = MenuCall(cb), !.called = TRUE,
                                         !.wish = w, !.ret = r]
                    /\ UNCHANGED <<phase, current>>
    /\ UNCHANGED nodes

\* Faulty variant: None taken for an unmatched line: the prompt is repeated
AskNone_Reprompt ==
    /\ phase = "run" /\ pc = "ask"
    /\ calls.ask < MaxAsks
    /\ question' = Invalid
    /\ calls' = [calls EXCEPT !.ask = @ + 1]
    /\ last' = [NoLast EXCEPT !.op = "ask", !.node = current, !.eof = TRUE,
                              !.before = state]
    /\ UNCHANGED <<nodes, phase, current, pc, state>>

\* ask(question) returns None inside Menu.next
AskNone ==
    /\ phase = "run" /\ pc = "ask"
    /\ Continue(None, state)
    /\ last' = [NoLast EXCEPT !.op = "ask", !.node = current, !.eof = TRUE,
                              !.before = state]
    /\ UNCHANGED <<nodes, question, calls>>

\* ask(question) returns the line `answer` inside Menu.next
AskLine(answer) ==
    /\ phase = "run" /\ pc = "ask"
    /\ \E res \in {get_item(items_list(nodes[current]), answer)} :
       LET l == [NoLast EXCEPT !.op = "ask", !.node = current, !.text = answer,
                               !.res = res, !.before = state]
       IN  CASE res.tag = "return" ->
                    /\ Continue(MenuNextNode(current, res), state)
                    /\ last' = l
                    /\ UNCHANGED <<question, calls>>
             [] res.tag = "KeyError" ->
                    /\ calls.ask < MaxAsks
                    /\ question' = Invalid
                    /\ calls' = [calls EXCEPT !.ask = @ + 1]
                    /\ last' = l
                    /\ UNCHANGED <<phase, current, pc, state>>
             [] res.tag = "TypeError" ->
                    /\ Raise
                    /\ last' = [l EXCEPT !.exc = "TypeError"]
                    /\ UNCHANGED <<question, calls>>
    /\ UNCHANGED nodes

\* Action.next
ActionNext ==
    /\ phase = "run" /\ pc = "next"
    /\ nodes[current].kind = "Action"
    /\ LET cb == nodes[current].callback
           l == [NoLast EXCEPT !.op = "Action.next", !.node = current,
                               !.before = state]
       IN  IF cb = NoCallback
               THEN /\ Continue(ActionNextNode(current, NoWish), state)
                    /\ calls' = NoCalls
                    /\ last' = l
           ELSE IF ~ActionCall(cb).ok
               THEN /\ Raise
                    /\ calls' = [callback |-> 1, ask |-> 0]
                    /\ last' = [l EXCEPT !.bind = ActionCall(cb), !.exc = "TypeError"]
           ELSE \E r \in StateVals, w \in Wishes :
                    /\ Continue(ActionNextNode(current, w), NextState(cb, state, r))
                    /\ calls' = [callback |-> 1, ask |-> 0]
                    /\ last' = [l EXCEPT !.bind = ActionCall(cb), !.called = TRUE,
                                         !.wish = w, !.ret = r]
    /\ UNCHANGED <<nodes, question>>

Run(inputs) ==
    \/ \E self \in 1..MaxNodes : Communicate(self)
    \/ MenuNext
    \/ AskNone
    \/ \E answer \in inputs : AskLine(answer)
    \/ ActionNext

\* The builder and the traversal over every label and input; default flags,
\* no callback attached
Next ==
    \/ \E self \in 1..MaxNodes, name \in Labels, ie, ies \in {"None"} :
            AddMenu(self, name, ie, ies)
    \/ \E self \in 1..MaxNodes, name \in Labels : AddAction(self, name)
    \/ Run(Inputs)

Spec == Init /\ [][Next]_vars

\* The same program over every flag argument of Menu.menu and one label; no
\* callback attached
NextFlags ==
    \/ \E self \in 1..MaxNodes, name \in LabelsCb, ie, ies \in FlagArgs :
            AddMenu(self, name, ie, ies)
    \/ \E self \in 1..MaxNodes, name \in LabelsCb : AddAction(self, name)
    \/ Run(InputsCb)

SpecFlags == Init /\ [][NextFlags]_vars

\* The same program with callbacks of every shape attached, over one label
NextCb ==
    \/ \E self \in 1..MaxNodes, name \in LabelsCb, ie, ies \in {"None"} :
            AddMenu(self, name, ie, ies)
    \/ \E self \in 1..MaxNodes, name \in LabelsCb : AddAction(self, name)
    \/ \E self \in 1..MaxNodes, params \in ShapesCb : Attach(self, params)
    \/ \E self \in 1..MaxNodes : Detach(self)
    \/ Run(InputsCb)

SpecCb == Init /\ [][NextCb]_vars

\* SpecCb where the traversal goes on: a transition that can start does
\* start (the code is sequential), and the input comes to its end, so that
\* ask, called again and again, at some call returns None
SpecCbFair ==
    SpecCb /\ WF_vars(MenuNext) /\ WF_vars(ActionNext) /\ SF_vars(AskNone)

\* The same program over callbacks of every shape, on a Menu and its Actions
NextShapes ==
    \/ \E name \in LabelsCb : AddAction(1, name)
    \/ \E self \in 1..MaxNodes, params \in Shapes : Attach(self, params)
    \/ \E self \in 1..MaxNodes : Detach(self)
    \/ Run(InputsCb)

SpecShapes == Init /\ [][NextShapes]_vars

-----------------------------------------------------------------------------
(* Vocabulary of the properties *)

Options(m) == items_list(nodes[m])

\* the scores of the label pass and of the index pass for the input text
LabelScores(m, text) ==
    [i \in 1..Len(Options(m)) |-> ratio(Lower(Options(m)[i][1]), Lower(text))]
IndexScores(m, text) ==
    [i \in 1..Len(Options(m)) |-> ratio(Str(i), text)]

\* the positions holding the maximum score
Maximal(scores) ==
    {i \in DOMAIN scores : \A j \in DOMAIN scores : ~RatioGreater(scores[j], scores[i])}

First(S) == CHOOSE i \in S : \A j \in S : i <= j

NoneAtLeastHalf(scores) == \A i \in DOMAIN scores : ~AtLeastHalf(scores[i])

\* the latest operation was ask returning a line at a Menu prompt
Answered == last.op = "ask" /\ ~last.eof

-----------------------------------------------------------------------------
(* C1 *)

\* C1: every Menu's effective option list is its authored entries in
\* insertion order, then one ("Return to previous menu", parent) entry iff
\* the menu has a parent, then one ("Exit", None) entry iff the menu has no
\* parent or include_exit is set.
C1_EffectiveOptions ==
    \A m \in Menus(nodes) :
        LET self == nodes[m]
            e == Options(m)
            n == Len(self.items)
            hasReturn == self.parent # None
            hasExit == self.parent = None \/ self.include_exit
        IN  /\ Len(e) = n + (IF hasReturn THEN 1 ELSE 0) + (IF hasExit THEN 1 ELSE 0)
            /\ \A i \in 1..n : e[i] = self.items[i]
            /\ \A i, j \in 1..n : i < j => self.items[i][2] < self.items[j][2]
            /\ hasReturn => e[n + 1] = <<ReturnLabel, self.parent>>
            /\ hasExit => e[Len(e)] = <<ExitLabel, None>>
            /\ ~hasReturn => \A i \in 1..Len(e) : e[i][1] = ReturnLabel => i <= n
            /\ ~hasExit => e[Len(e)] = <<ReturnLabel, self.parent>>

\* a submenu without Exit and a root, each with an authored entry
C1_Witness ==
    /\ Len(nodes) = 3
    /\ Len(nodes[1].items) = 1
    /\ nodes[2].kind = "Menu" /\ ~nodes[2].include_exit
    /\ Len(nodes[2].items) = 1

-----------------------------------------------------------------------------
(* C2 *)

\* C2: in the label pass, when two or more options share the maximum score
\* and that score is at least 0.5, the target returned is that of the first
\* of them in the effective option list.
C2_LabelTieFirst ==
    (Answered /\ last.res.tag = "return") =>
        LET scores == LabelScores(last.node, last.text)
            top == Maximal(scores)
        IN  (Cardinality(top) >= 2 /\ AtLeastHalf(scores[First(top)]))
                => last.res.target = Options(last.node)[First(top)][2]

-----------------------------------------------------------------------------
(* C3 *)

\* C3: in the index pass (no label scores at least 0.5), when two or more
\* index strings share the maximum score and that score is at least 0.5, the
\* target returned is that of the smallest such index.
C3_IndexTieFirst ==
    (Answered /\ last.res.tag = "return") =>
        LET scores == IndexScores(last.node, last.text)
            top == Maximal(scores)
        IN  (/\ NoneAtLeastHalf(LabelScores(last.node, last.text))
             /\ Cardinality(top) >= 2 /\ AtLeastHalf(scores[First(top)]))
                => last.res.target = Options(last.node)[First(top)][2]

-----------------------------------------------------------------------------
(* C4 *)

\* the options of Menu m whose label equals text, ignoring case
EqualIgnoringCase(m, text) ==
    {i \in 1..Len(Options(m)) : Lower(Options(m)[i][1]) = Lower(text)}

\* C4: an input that equals, ignoring case, the label of exactly one option
\* selects that option's target.
C4_ExactLabel ==
    (Answered /\ Cardinality(EqualIgnoringCase(last.node, last.text)) = 1) =>
        last.res = Found(Options(last.node)[First(EqualIgnoringCase(last.node, last.text))][2])

-----------------------------------------------------------------------------
(* C5 *)

\* C5: an input that is the decimal string of k, 1 <= k <= n, and that no
\* label resembles (score at least 0.5) selects the target of the k-th
\* option, the one the prompt shows as "k. <label>".
C5_IndexSelects ==
    Answered =>
        \A k \in 1..Len(Options(last.node)) :
            (last.text = Str(k) /\ NoneAtLeastHalf(LabelScores(last.node, last.text)))
                => /\ last.res = Found(Options(last.node)[k][2])
                   /\ menu_lines(nodes[last.node])[k]
                        = Str(k) \o <<46, 32>> \o Options(last.node)[k][1]

-----------------------------------------------------------------------------
(* C6 *)

\* C6: after an input scoring below 0.5 against every label and every index
\* string, Menu.next has not returned: it is waiting in ask again with the
\* error line as the prompt, at the same Menu, the state unchanged.
C6_Reprompt ==
    (/\ Answered
     /\ NoneAtLeastHalf(LabelScores(last.node, last.text))
     /\ NoneAtLeastHalf(IndexScores(last.node, last.text)))
        => /\ phase = "run" /\ pc = "ask"
           /\ current = last.node
           /\ state = last.before
           /\ question = Invalid

\* C4, C5 and C6 where selection raises no TypeError (see C16)
C4_UnlessTypeError == last.res.tag # "TypeError" => C4_ExactLabel
C5_UnlessTypeError == last.res.tag # "TypeError" => C5_IndexSelects
C6_UnlessTypeError == last.res.tag # "TypeError" => C6_Reprompt

-----------------------------------------------------------------------------
(* C7 *)

\* C7: when ask returns None at a Menu prompt, Menu.next returns
\* (None, state) and communicate ends at once: no selection is attempted, no
\* callback is invoked, no further ask call is made, and nothing happens
\* after communicate has returned.
C7_EndOfInput ==
    [][/\ (phase = "run" /\ pc = "ask" /\ last'.op = "ask" /\ last'.eof)
            => /\ phase' = "returned"
               /\ current' = None
               /\ state' = state
               /\ calls' = calls
               /\ question' = question
               /\ last'.res = NoResult
               /\ ~last'.called
       /\ phase = "returned" => UNCHANGED vars]_vars

\* ask returned None in a submenu, after a callback had run and changed the state
C7_Witness ==
    /\ phase = "returned"
    /\ last.op = "ask" /\ last.eof
    /\ nodes[last.node].parent # None
    /\ nodes[last.node].callback # NoCallback
    /\ state # InitialState

-----------------------------------------------------------------------------
(* C8 *)

\* C8: an Action callback that sets the flow handle to some Menu X makes X
\* the engine's next node after that Action transition.
C8_ActionRedirect ==
    (/\ last.op = "Action.next" /\ last.called
     /\ last.wish # NoWish
     /\ last.wish[1] \in Menus(nodes))
        => current = last.wish[1]

-----------------------------------------------------------------------------
(* C9 *)

\* C9: an Action transition invokes the Action's callback exactly once if
\* one is attached and not at all otherwise, makes no ask call, and the
\* node it returns is the Action's parent Menu: never None, never the Action.
C9_ActionTransition ==
    [][last'.op = "Action.next" =>
        /\ calls'.callback = (IF nodes[current].callback # NoCallback THEN 1 ELSE 0)
        /\ calls'.ask = 0
        /\ question' = question
        /\ pc' = "next"
        /\ phase' # "returned"
        /\ phase' = "run" =>
            /\ current' = nodes[current].parent
            /\ current' # None
            /\ current' # current
            /\ nodes[current'].kind = "Menu"]_vars

\* an Action with a callback has run and handed over to its parent
C9_Witness ==
    /\ last.op = "Action.next" /\ last.called
    /\ phase = "run"
    /\ current = nodes[last.node].parent

-----------------------------------------------------------------------------
(* C10 *)

\* the parameter at position i of a callback received what its name calls for
BoundAsDeclared(params, args) ==
    \A i \in 1..Len(params) :
        args[i] = (IF params[i] = "ask" THEN AskArg
                   ELSE IF params[i] = "tell" THEN TellArg
                   ELSE StateArg)

\* C10: a callback whose declared parameters are not a recognized shape is
\* refused when it is attached; no callback stored on a node fails to bind
\* or binds an argument to the wrong parameter when the traversal calls it.
C10_NoDeferredFailure ==
    (last.op \in {"Menu.next", "Action.next"}
        /\ nodes[last.node].callback # NoCallback)
        => /\ last.bind.ok
           /\ BoundAsDeclared(nodes[last.node].callback.params, last.bind.args)

-----------------------------------------------------------------------------
(* C11 *)

\* the shapes of zero, one or two parameters that normalize_callback is meant
\* to take: state (any name but ask and tell) first if at all, then ask, tell
Recognized(params) ==
    \/ Len(params) <= 1
    \/ /\ Len(params) = 2
       /\ params[2] \in {"ask", "tell"}
       /\ params[1] # params[2]

\* C11: the wrapper of a recognized callback of zero, one or two parameters,
\* invoked with (state, ask, tell), calls the original with exactly what it
\* declares: the state in a leading parameter that is not ask or tell, the
\* run's ask and tell in the parameters of those names; the transition's
\* state is the value the original returned.
C11_WrapperPassesDeclared ==
    (/\ last.op \in {"Menu.next", "Action.next"}
     /\ nodes[last.node].callback # NoCallback
     /\ nodes[last.node].callback.wrapper # "callback"
     /\ Recognized(nodes[last.node].callback.params))
        => /\ last.bind.ok /\ last.called
           /\ Len(last.bind.args) = Len(nodes[last.node].callback.params)
           /\ BoundAsDeclared(nodes[last.node].callback.params, last.bind.args)
           /\ state = last.ret

\* a callback declaring only tell has been called from a Menu
\* and has returned another state
C11_Witness ==
    /\ last.op = "Menu.next" /\ last.called
    /\ nodes[last.node].callback.params = <<"tell">>
    /\ last.bind.args = <<TellArg>>
    /\ last.ret # last.before

-----------------------------------------------------------------------------
(* C12 *)

\* C12: communicate has returned exactly when the current node is None, and
\* the step that makes it None is ask returning None at a Menu prompt or a
\* prompt input resolving to the synthesized Exit entry (the only option
\* whose target is None); no Action transition ends the traversal.
C12_TerminalOnlyByNoneOrExit ==
    [][/\ (phase' = "returned") <=> (phase' # "build" /\ current' = None)
       /\ (phase = "run" /\ phase' = "returned") =>
            /\ pc = "ask" /\ last'.op = "ask"
            /\ nodes[current].kind = "Menu"
            /\ \/ last'.eof
               \/ LET e == Options(current)
                  IN  /\ last'.res = Found(None)
                      /\ e[Len(e)] = <<ExitLabel, None>>
                      /\ \A i \in 1..(Len(e) - 1) : e[i][2] # None
       /\ last'.op = "Action.next" => phase' # "returned"]_vars

\* the traversal of a root holding one Action ended at the root on the
\* input "2", the number of the root's Exit entry
C12_Witness ==
    /\ phase = "returned"
    /\ last.op = "ask" /\ ~last.eof
    /\ last.node = 1 /\ last.text = <<50>>
    /\ Len(nodes) = 2 /\ nodes[2].kind = "Action"

-----------------------------------------------------------------------------
(* C13 *)

\* Menu m shows an Exit entry
ShowsExit(ns, m) ==
    \E i \in 1..Len(items_list(ns[m])) : items_list(ns[m])[i] = <<ExitLabel, None>>

\* C13: a submenu created by Menu.menu takes, for each flag not passed, the
\* creating menu's include_exit_on_submenus, and the passed value otherwise;
\* created without flags it shows Exit iff the creator's
\* include_exit_on_submenus is set, and hands the same default on; the
\* flags of every other node stay as they were.
C13_FlagInheritance ==
    [][last'.op = "Menu.menu" =>
        LET sub == nodes'[Len(nodes')]
            creator == nodes[last'.node]
            ie == last'.include_exit
            ies == last'.include_exit_on_submenus
        IN  /\ Len(nodes') = Len(nodes) + 1
            /\ sub.kind = "Menu" /\ sub.parent = last'.node
            /\ sub.include_exit =
                    (IF ie = "None" THEN creator.include_exit_on_submenus
                     ELSE ie = "True")
            /\ sub.include_exit_on_submenus =
                    (IF ies = "None" THEN creator.include_exit_on_submenus
                     ELSE ies = "True")
            /\ (ie = "None" /\ ies = "None") =>
                    /\ ShowsExit(nodes', Len(nodes')) <=> creator.include_exit_on_submenus
                    /\ sub.include_exit_on_submenus = creator.include_exit_on_submenus
            /\ \A n \in 1..Len(nodes) :
                    /\ nodes'[n].include_exit = nodes[n].include_exit
                    /\ nodes'[n].include_exit_on_submenus
                            = nodes[n].include_exit_on_submenus]_vars

\* a submenu created without flags under a submenu created with
\* include_exit_on_submenus=True and include_exit=False: it shows Exit, its
\* creator does not
C13_Witness ==
    /\ last.op = "Menu.menu" /\ last.node = 2
    /\ last.include_exit = "None" /\ last.include_exit_on_submenus = "None"
    /\ Len(nodes) = 3
    /\ ~nodes[2].include_exit /\ nodes[2].include_exit_on_submenus
    /\ nodes[3].include_exit /\ nodes[3].include_exit_on_submenus
    /\ ShowsExit(nodes, 3) /\ ~ShowsExit(nodes, 2)

-----------------------------------------------------------------------------
(* C14 *)

\* a step of the traversal as C14 describes it
MenuCallbackThenPrompt ==
    /\ (last'.op = "Menu.next" /\ nodes[current].callback # NoCallback) =>
            /\ calls'.callback = 1 /\ last'.called
            /\ calls'.ask = 1
            /\ phase' = "run" /\ pc' = "ask" /\ current' = current
            /\ question' = Prompt(nodes[current])
    /\ last'.op = "ask" =>
            /\ calls'.callback = calls.callback
            /\ ~last'.called

\* C14: every Menu transition with a callback attached invokes it exactly
\* once, then asks with the menu as the prompt (the Menu always proceeds to
\* prompt); the answers and reprompts that follow invoke no callback; this
\* holds for each entry into the Menu, the first and every later one.
C14_MenuCallbackOncePerEntry == [][MenuCallbackThenPrompt]_vars

\* C14 where the call of the callback raises no TypeError (see C10)
C14_UnlessTypeError == [][last'.exc # "TypeError" => MenuCallbackThenPrompt]_vars

-----------------------------------------------------------------------------
(* C15 *)

\* the three-parameter callbacks C15 speaks of
StateFirstAskTell == {<<"state", "ask", "tell">>, <<"state", "tell", "ask">>}

\* C15: a three-parameter callback declaring state first and naming ask and
\* tell, in either order, receives the run's ask in its ask parameter and
\* the run's tell in its tell parameter, and the calls of Menu.next and of
\* Action.next bind the same arguments to the same parameters.
C15_SameBindingMenuAction ==
    (/\ last.op \in {"Menu.next", "Action.next"}
     /\ nodes[last.node].callback # NoCallback
     /\ nodes[last.node].callback.params \in StateFirstAskTell)
        => /\ last.bind.ok
           /\ BoundAsDeclared(nodes[last.node].callback.params, last.bind.args)
           /\ MenuCall(nodes[last.node].callback)
                = ActionCall(nodes[last.node].callback)

\* C15 for the declared order (state, ask, tell) alone
C15_DeclaredInCallOrder ==
    nodes[last.node].callback.params # <<"state", "tell", "ask">>
        => C15_SameBindingMenuAction

-----------------------------------------------------------------------------
(* C16 *)

\* C16: for every menu built and every input, selection returns one
\* option's target or signals not-found (KeyError, answered by a reprompt);
\* no other error leaves Menu._get_item and communicate.
C16_ReturnOrNotFound ==
    Answered =>
        /\ last.res.tag \in {"return", "KeyError"}
        /\ last.res.tag = "return" =>
                \E i \in 1..Len(Options(last.node)) :
                    last.res.target = Options(last.node)[i][2]
        /\ phase # "raised"

\* C16 for the menus whose effective options carry distinct labels
C16_DistinctLabels ==
    (\A i, j \in 1..Len(Options(last.node)) :
        Options(last.node)[i][1] = Options(last.node)[j][1] => i = j)
        => C16_ReturnOrNotFound

-----------------------------------------------------------------------------
(* C17 *)

\* C17: a Menu or Action transition hands its callback the current state and
\* leaves as the state the value the callback returned, or the incoming
\* state when the node has no callback; the prompt, an unmatched input, a
\* selection and the end of the input leave the state as it is; communicate
\* starts from the state it was given.
C17_StateThreaded ==
    [][/\ (last'.op \in {"Menu.next", "Action.next"} /\ phase' # "raised") =>
            /\ last'.before = state
            /\ state' = (IF nodes[current].callback # NoCallback
                            THEN last'.ret ELSE state)
            /\ last'.called <=> nodes[current].callback # NoCallback
       /\ last'.op = "ask" => state' = state
       /\ last'.op = "communicate" => state' = InitialState
       /\ phase' = "raised" => state' = state]_vars

\* a callback was handed the state an earlier call had returned, and
\* returned the initial one again
C17_Witness ==
    /\ last.op \in {"Menu.next", "Action.next"} /\ last.called
    /\ last.before # InitialState
    /\ last.ret = InitialState
    /\ state = InitialState

-----------------------------------------------------------------------------
(* C18 *)

\* following parent references from node n reaches the root within k steps
RECURSIVE ReachesRoot(_, _, _)
ReachesRoot(ns, n, k) ==
    IF n = 1 THEN TRUE
    ELSE IF k = 0 \/ n = None THEN FALSE
    ELSE ReachesRoot(ns, ns[n].parent, k - 1)

\* the places <<m, i>> where node n is the target of an authored entry
EntriesOf(ns, n) ==
    {p \in Menus(ns) \X (1..Len(ns)) :
        p[2] <= Len(ns[p[1]].items) /\ ns[p[1]].items[p[2]][2] = n}

\* the nodes form a tree rooted at the Menu menu() returned
IsTree(ns) ==
    /\ ns[1].kind = "Menu" /\ ns[1].parent = None
    /\ \A m \in Menus(ns) : \A i \in 1..Len(ns[m].items) :
            /\ ns[m].items[i][2] \in 2..Len(ns)
            /\ ns[ns[m].items[i][2]].parent = m
    /\ \A n \in 1..Len(ns) : ns[n].kind = "Action" => ns[n].items = <<>>
    /\ \A n \in 2..Len(ns) : Cardinality(EntriesOf(ns, n)) = 1
    /\ \A n \in 1..Len(ns) : ReachesRoot(ns, n, Len(ns))

\* C18: after any sequence of builder operations the nodes form a tree: the
\* root has no parent, the target of every authored entry of menu m has m as
\* its parent, every other node is the target of exactly one entry, parent
\* references lead to the root; and no operation removes or reorders an
\* entry or moves a node.
C18_TreeAppendOnly ==
    [][/\ IsTree(nodes) /\ IsTree(nodes')
       /\ Len(nodes') >= Len(nodes)
       /\ \A n \in 1..Len(nodes) :
            /\ nodes'[n].parent = nodes[n].parent
            /\ nodes'[n].kind = nodes[n].kind
            /\ Len(nodes'[n].items) >= Len(nodes[n].items)
            /\ \A i \in 1..Len(nodes[n].items) :
                    nodes'[n].items[i] = nodes[n].items[i]]_vars

\* an Action added to a menu that already held a submenu
C18_Witness ==
    /\ last.op = "Menu.action" /\ last.node = 1
    /\ Len(nodes) = 3
    /\ nodes[2].kind = "Menu" /\ nodes[3].kind = "Action"
    /\ Len(nodes[1].items) = 2
    /\ nodes[1].items[1][2] = 2 /\ nodes[1].items[2][2] = 3

-----------------------------------------------------------------------------
(* C19 *)

\* the call of a callback raised: that callback did not return
CallbackRaised == phase = "raised" /\ last.op \in {"Menu.next", "Action.next"}

\* C19: if every callback returns and the input ends after finitely many
\* lines, communicate, started at any Menu of any tree built, terminates:
\* eventually the current node is None and communicate has returned.
C19_Terminates ==
    (phase = "run") ~> (phase = "returned" \/ CallbackRaised)

\* C19 where leaving communicate by an exception counts as terminating
C19_ReturnsOrRaises ==
    (phase = "run") ~> (phase \in {"returned", "raised"})

\* C19, the converse: communicate returns on no other step than ask
\* returning None or an input resolving to the Exit entry
C19_ReturnsOnlyOnNoneOrExit ==
    phase = "returned" =>
        /\ last.op = "ask"
        /\ last.eof \/ last.res = Found(None)

-----------------------------------------------------------------------------
(* C20 *)

\* where a transition of node n can lead: an Action's parent, the targets of
\* a Menu's effective options
Successors(ns, n) ==
    IF ns[n].kind = "Action" THEN {ns[n].parent}
    ELSE {items_list(ns[n])[i][2] : i \in 1..Len(items_list(ns[n]))}

\* None is among the nodes reached from the set S in at most k transitions
RECURSIVE ReachesTerminal(_, _, _)
ReachesTerminal(ns, S, k) ==
    IF None \in S THEN TRUE
    ELSE IF k = 0 THEN FALSE
    ELSE ReachesTerminal(ns, UNION {Successors(ns, n) : n \in S}, k - 1)

\* C20: in every tree built, every Menu has at least one effective option,
\* a Menu without a parent has the Exit entry, and from every node None is
\* reachable along effective options: an Action's parent, "Return to
\* previous menu" up to the root, the root's Exit.
C20_OptionsAndWayOut ==
    /\ \A m \in Menus(nodes) :
            /\ Len(Options(m)) >= 1
            /\ nodes[m].parent = None => ShowsExit(nodes, m)
            /\ nodes[m].parent # None =>
                    \E i \in 1..Len(Options(m)) :
                        Options(m)[i] = <<ReturnLabel, nodes[m].parent>>
    /\ \A n \in 1..Len(nodes) :
            /\ n # 1 => nodes[n].parent \in Menus(nodes)
            /\ ReachesTerminal(nodes, {n}, Len(nodes))

\* an Action under a submenu that shows no Exit and holds nothing else: the
\* way out is the Action's parent, its Return entry, the root's Exit
C20_Witness ==
    /\ Len(nodes) = 3
    /\ nodes[2].kind = "Menu" /\ nodes[2].parent = 1 /\ ~ShowsExit(nodes, 2)
    /\ nodes[3].kind = "Action" /\ nodes[3].parent = 2
    /\ ~ReachesTerminal(nodes, {3}, 2)

=============================================================================
